---- MODULE Spec2Model ----
(***************************************************************************)
(* A state-machine model of LapisMirror's orchestration core (lapis.py):   *)
(* main(), LapisLazuli.__init__, scan_submissions, process_submission,     *)
(* call_plugin_function, sticky_comment and the rollback of exports.       *)
(* The program is single-threaded; pc is the position of its only thread.  *)
(* Plugins, the feed and reddit are the environment: every call into them  *)
(* returns one of a small set of values or raises.                         *)
(***************************************************************************)
EXTENDS Integers, Sequences, FiniteSets

\* ------------------------------------------------------------------ bounds
\* Number of posts the feed can ever hold.
NumPosts == 2
\* scan_limit: how many of the newest posts one get_new() call returns.
MaxListing == 2
\* Poll cycles modelled per invocation of scan_submissions.
MaxCycles == 2
\* Recoveries (cooldown + reconstruction) main() is followed through.
MaxRestarts == 1

\* ------------------------------------------------------------ python values
\* Python truthiness of a plugin's return value: None and the empty dict are
\* falsy, a dict with at least one key is truthy.
Truthy_NotNone(v) == ~v.isNone

Truthy(v) == ~v.isNone /\ v.keys # {}

\* `key in dict`
HasKey(d, key) == ~d.isNone /\ key \in d.keys

\* any(seq): some element is truthy.
PyAny(seq) == \E i \in 1..Len(seq) : Truthy(seq[i])

\* filter(None, seq)
FilterNone(seq) == SelectSeq(seq, Truthy)

\* submission.id is a base-36 string; ids carry their python type.
IdNames == <<"2qx1", "2qx2", "2qx3", "2qx4">>

PostId(n) == [type |-> "str", val |-> IdNames[n]]

Posts == {PostId(n) : n \in 1..NumPosts}

\* '%d' % value: formats an int, raises TypeError for anything else.
PercentD(v) == IF v.type = "int" THEN "ok" ELSE "TypeError"

\* ---------------------------------------------------------- import records
\* Texts are sequences of tokens; the empty string is <<>>.
NoneImport ==
    [isNone |-> TRUE, keys |-> {}, source |-> "", import_urls |-> <<>>,
     header |-> <<>>, footer |-> <<>>]

EmptyImport ==
    [isNone |-> FALSE, keys |-> {}, source |-> "", import_urls |-> <<>>,
     header |-> <<>>, footer |-> <<>>]

\* An import info dictionary: source, import_urls and, when `display`, an
\* importer_display with a header and a footer.
ImportRecord(importer, urls, display) ==
    [isNone |-> FALSE,
     keys |-> {"source", "import_urls"} \cup
              (IF display THEN {"importer_display"} ELSE {}),
     source |-> importer, import_urls |-> urls,
     header |-> IF display THEN <<<<"header", importer>>>> ELSE <<>>,
     footer |-> IF display THEN <<<<"footer", importer>>>> ELSE <<>>]

\* What import_submission of a plugin can return (kind "raise" is an exception).
ImportReturn(plugin, kind) ==
    CASE kind = "none"   -> NoneImport
      [] kind = "empty"  -> EmptyImport
      [] kind = "nourls" -> ImportRecord(plugin.name, <<>>, plugin.display)
      [] kind = "urls"   -> ImportRecord(plugin.name, <<"url">>, plugin.display)

\* ---------------------------------------------------------- export records
NoneExport ==
    [isNone |-> TRUE, keys |-> {}, exporter |-> "", link_display |-> <<>>,
     delete_info |-> <<>>]

EmptyExport ==
    [isNone |-> FALSE, keys |-> {}, exporter |-> "", link_display |-> <<>>,
     delete_info |-> <<>>]

ExportRecord(keys, exporter, info) ==
    [isNone |-> FALSE, keys |-> keys,
     exporter |-> IF "exporter" \in keys THEN exporter ELSE "",
     link_display |-> IF "link_display" \in keys
                        THEN <<<<"link", exporter, info.source>>>> ELSE <<>>,
     delete_info |-> IF "delete_info" \in keys THEN <<exporter, info.source>> ELSE <<>>]

\* What export_submission(**import_info) of a plugin can return.
ExportReturn(plugin, kind, info) ==
    CASE kind = "none"       -> NoneExport
      [] kind = "empty"      -> EmptyExport
      [] kind = "full"       ->
           ExportRecord({"exporter", "link_display", "delete_info"}, plugin.name, info)
      [] kind = "notoken"    ->
           ExportRecord({"exporter", "link_display"}, plugin.name, info)
      [] kind = "noexporter" ->
           ExportRecord({"delete_info"}, plugin.name, info)

\* ------------------------------------------------------------------ plugins
\* The plugin classes found in the plugins directory, in discovery order:
\* the class name, the methods the class defines, and the behaviours its
\* import_submission / export_submission show.
PluginClasses ==
    << [name |-> "ImpA", caps |-> {"import_submission"}, display |-> FALSE,
        kinds |-> {"raise", "none", "empty", "nourls"}],
       [name |-> "ImpB", caps |-> {"import_submission", "login"}, display |-> TRUE,
        kinds |-> {"none", "urls"}],
       [name |-> "ExpX", caps |-> {"export_submission", "delete_export", "login"},
        display |-> FALSE, kinds |-> {"raise", "none", "full", "notoken"}],
       [name |-> "ExpY", caps |-> {"export_submission", "verify_options"},
        display |-> FALSE, kinds |-> {"none", "empty", "full", "noexporter"}] >>

\* hasattr(plugin, func_name)
HasAttr(plugin, func) == func \in plugin.caps

\* ------------------------------------------------------------ configuration
\* The options verify_options looks at.
OptionKeys ==
    {"subreddit", "reddit_oauth", "reddit_user", "reddit_password", "maintainer",
     "post_template_file", "post_template"}

\* The fields of reddit_oauth that must be truthy.
OAuthFields ==
    {"client_id", "client_secret", "redirect_uri", "access_token", "refresh_token",
     "scope"}

\* lapis.conf as main() passes it to LapisLazuli: whether the file exists,
\* the keys it defines, the truthy fields of its reddit_oauth dictionary,
\* whether post_template_file names an existing file, whether mako can load
\* that file, whether the useragent text can be formatted with the options,
\* and the forward_replies option.
Options(present, keys, oauth, exists, loads, formats, forward) ==
    [present |-> present, keys |-> keys, oauth |-> oauth,
     template_exists |-> exists, template_loads |-> loads,
     useragent_formats |-> formats, forward_replies |-> forward]

\* A lapis.conf with OAuth login, a template file, a logfile and
\* forward_replies.
OAuthConfig ==
    Options(TRUE, {"subreddit", "reddit_oauth", "maintainer", "post_template_file",
                   "logfile"},
            OAuthFields, TRUE, TRUE, TRUE, TRUE)

\* The configurations the whole program is run with: password login, OAuth
\* login with a template file and forwarding, a file without subreddit, and
\* no file.
Configs ==
    { Options(TRUE, {"subreddit", "reddit_user", "reddit_password", "maintainer"},
              {}, FALSE, FALSE, TRUE, FALSE),
      OAuthConfig,
      Options(TRUE, {"reddit_user", "reddit_password", "maintainer"},
              {}, FALSE, FALSE, TRUE, FALSE),
      Options(FALSE, {}, {}, FALSE, FALSE, TRUE, FALSE) }

\* all(oauth.get(k) for k in (...))
OAuthComplete_Any(o) == o.oauth # {}

OAuthComplete(o) == OAuthFields \subseteq o.oauth

\* The first LapisError verify_options raises for these options, "" if none.
ConfigError(o) ==
    IF "subreddit" \notin o.keys THEN "You must define a subreddit!"
    ELSE IF "reddit_oauth" \in o.keys /\ ~OAuthComplete(o)
      THEN "You are missing a reddit oauth option!"
    ELSE IF "reddit_oauth" \notin o.keys /\ "reddit_user" \notin o.keys
      THEN "You must define a user!"
    ELSE IF "reddit_oauth" \notin o.keys /\ "reddit_password" \notin o.keys
      THEN "You must define a password!"
    ELSE IF "maintainer" \notin o.keys THEN "You must define a maintainer!"
    ELSE IF "post_template_file" \in o.keys /\ "post_template" \in o.keys
      THEN "Both a template file and template field were provided!"
    ELSE IF "post_template_file" \in o.keys /\ ~o.template_exists
      THEN "A template file was specified, but the file does not exist!"
    ELSE ""

\* verify_options(): how it ends ("ok", or the type of the exception it
\* raises) and the attributes it has set by then.  After the checks the
\* template file is loaded with mako and the useragent is formatted; both
\* can raise.
VerifyOptions(o) ==
    LET err == ConfigError(o)
        oauthSet == /\ "subreddit" \in o.keys
                    /\ "reddit_oauth" \in o.keys
                    /\ OAuthComplete(o)
        makoSet == err = "" /\ "post_template_file" \in o.keys
    IN  [result |-> IF err # "" THEN "LapisError"
                    ELSE IF makoSet /\ ~o.template_loads THEN "Exception"
                    ELSE IF ~o.useragent_formats THEN "Exception"
                    ELSE "ok",
         use_oauth |-> oauthSet,
         use_mako |-> makoSet]

\* ------------------------------------------------------------- the inbox
\* The messages that can be sent to the bot's account in a run.
MaxMessages == 2

Messages == 1..MaxMessages

\* A message of the inbox: whether it exists yet, whether reddit holds it as
\* unread, whether its author's account still exists (item.author is None
\* otherwise), and how often it was sent on to the maintainer.
Message(exists, unread, author, forwards) ==
    [exists |-> exists, unread |-> unread, author |-> author, forwards |-> forwards]

NoMessages == [m \in Messages |-> Message(FALSE, FALSE, FALSE, 0)]

VARIABLES
    pc,              \* position of the program's thread
    config,          \* the parsed lapis.conf
    exc,             \* type of the exception in flight ("none" when there is none)
    excOrigin,       \* the call that raised it
    startupDone,     \* the first LapisLazuli(**config) returned
    restarts,        \* recoveries done by main()
    use_oauth,       \* LapisLazuli.use_oauth
    use_mako,        \* LapisLazuli.use_mako
    plugins,         \* LapisLazuli.plugins
    ctorOk,          \* history: the discovered classes whose constructor returned
    verifyRaised,    \* history: a plugin's verify_options raised LapisError in the
                     \* construction last run, until the scan loop is under way
    handlers,        \* logging.getLogger('lapis').handlers, process-wide
    arrived,         \* feed: posts 1..arrived exist, the highest is the newest
    commented,       \* reddit: posts that carry a comment of the bot's account
    inbox,           \* reddit: the messages sent to the bot's account
    items,           \* the items of reddit.get_unread() not yet passed to forward_reply
    done,            \* scan_submissions' local list `done`
    cycles,          \* poll cycles started in this invocation of scan_submissions
    listing,         \* the posts get_new() returned in this cycle
    li,              \* index of the current submission in listing
    k,               \* call_plugin_function: index of the plugin being called
    import_results,  \* process_submission locals
    ii,
    export_results,
    export_table,
    links_display,   \* process_submission local: the joined links text
    ridx,            \* cleanup: index of the export result being visited
    publishAttempts, \* history: add_comment calls per post, this invocation
    calls,           \* history: the calls made by the call_plugin_function in progress
    exportCalls,     \* history: export_submission calls made for this post
    exportHits,      \* history: import infos for which an export returned a truthy result
    deleteCalls,     \* history: delete_export calls made for this post
    importFalsy,     \* history: every import call for this post was falsy or raised
    importEnded,     \* history: the import fan-out for this post has ended
    addCommentCalled, \* history: add_comment was called for this post
    pubFailed,       \* history: add_comment raised for this post
    rollbackRuns,    \* history: times the cleanup block was entered for this post
    deleteRaised,    \* history: a delete_export call raised for this post
    stickyResult,    \* history: how sticky_comment ended for this post
    ownComment,      \* history: the post carried a comment of the bot when it was taken
    psRaised         \* history: process_submission raised for this post

vars == <<pc, config, exc, excOrigin, startupDone, restarts, use_oauth, use_mako,
          plugins,
          ctorOk, verifyRaised, handlers,
          arrived, commented, inbox, items, done, cycles, listing, li, k, import_results, ii,
          export_results, export_table, links_display, ridx, publishAttempts,
          calls, exportCalls, exportHits, deleteCalls, importFalsy, importEnded,
          addCommentCalled, pubFailed,
          rollbackRuns, deleteRaised, stickyResult, ownComment, psRaised>>

mainVars == <<config, startupDone, restarts, use_oauth, use_mako, plugins, ctorOk,
              verifyRaised, handlers>>

worldVars == <<arrived, commented, inbox, items>>

scanVars == <<done, cycles, listing, li>>

psVars == <<k, import_results, ii, export_results, export_table, links_display, ridx>>

callHist == <<calls, exportCalls, exportHits, deleteCalls>>

flagHist == <<importFalsy, importEnded, addCommentCalled, pubFailed, rollbackRuns,
              deleteRaised, stickyResult, ownComment, psRaised>>

postHist == <<callHist, flagHist>>

\* The submission the scan loop is at.
CurPost == listing[li]

\* process_submission's locals before it is entered, and after it is left.
NoLocals ==
    /\ k' = 1
    /\ import_results' = <<>>
    /\ ii' = 1
    /\ export_results' = <<>>
    /\ export_table' = <<>>
    /\ links_display' = <<>>
    /\ ridx' = 1
    /\ calls' = <<>>
    /\ exportCalls' = {}
    /\ exportHits' = {}
    /\ deleteCalls' = <<>>

NoFlags ==
    /\ importFalsy' = TRUE
    /\ importEnded' = FALSE
    /\ addCommentCalled' = FALSE
    /\ pubFailed' = FALSE
    /\ rollbackRuns' = 0
    /\ deleteRaised' = FALSE
    /\ stickyResult' = "none"
    /\ ownComment' = FALSE
    /\ psRaised' = FALSE

\* scan_submissions' locals when it is entered: done = [].
NewScan ==
    /\ done' = <<>>
    /\ cycles' = 0
    /\ listing' = <<>>
    /\ li' = 1
    /\ publishAttempts' = [p \in Posts |-> 0]

\* The state of everything but pc and config before main() has run.
InitRest ==
    /\ exc = "none"
    /\ excOrigin = "none"
    /\ startupDone = FALSE
    /\ restarts = 0
    /\ use_oauth = FALSE
    /\ use_mako = FALSE
    /\ plugins = <<>>
    /\ ctorOk = {}
    /\ verifyRaised = FALSE
    /\ handlers = <<>>
    /\ arrived = 0
    /\ commented = {}
    /\ inbox = NoMessages
    /\ items = <<>>
    /\ done = <<>>
    /\ cycles = 0
    /\ listing = <<>>
    /\ li = 1
    /\ k = 1
    /\ import_results = <<>>
    /\ ii = 1
    /\ export_results = <<>>
    /\ export_table = <<>>
    /\ links_display = <<>>
    /\ ridx = 1
    /\ publishAttempts = [p \in Posts |-> 0]
    /\ calls = <<>>
    /\ exportCalls = {}
    /\ exportHits = {}
    /\ deleteCalls = <<>>
    /\ importFalsy = TRUE
    /\ importEnded = FALSE
    /\ addCommentCalled = FALSE
    /\ pubFailed = FALSE
    /\ rollbackRuns = 0
    /\ deleteRaised = FALSE
    /\ stickyResult = "none"
    /\ ownComment = FALSE
    /\ psRaised = FALSE

Init ==
    /\ pc = "main"
    /\ config \in Configs
    /\ InitRest

\* ------------------------------------------------------------ main, __init__
\* raise: an exception of type `type` leaves `origin` and control goes to `to`.
Raise(type, origin, to) ==
    /\ exc' = type
    /\ excOrigin' = origin
    /\ pc' = to

NoRaise(to) ==
    /\ pc' = to
    /\ UNCHANGED <<exc, excOrigin>>

\* Where an exception raised by LapisLazuli(**config) goes: the call at
\* startup and the one in main()'s handler are both outside any try block,
\* so it leaves main() and ends the process.
ConstructorRaises(type, origin) == Raise(type, origin, "crashed")

\* main(): the configuration file is looked up and parsed.
Main_LoadConfig ==
    /\ pc = "main"
    /\ IF config.present
         THEN NoRaise("init_verify")
         ELSE Raise("LapisError", "main", "crashed")
    /\ UNCHANGED <<mainVars, worldVars, scanVars, psVars, publishAttempts, postHist>>

RECURSIVE RemoveEach(_, _)
\* `for handler in self.log.handlers: self.log.removeHandler(handler)`: the
\* loop walks the list that removeHandler shortens; i is the position of
\* the loop in it.
RemoveEach(hs, i) ==
    IF i > Len(hs) THEN hs
    ELSE RemoveEach(SubSeq(hs, 1, i - 1) \o SubSeq(hs, i + 1, Len(hs)), i + 1)

\* A handler object: its kind and the construction that made it.
Handler(kind, n) == [kind |-> kind, made |-> n]

\* __init__, the logger set-up of construction n: the handlers found are
\* removed, a StreamHandler is added, and a FileHandler with a logfile option.
Reattach(hs, o, n) ==
    RemoveEach(hs, 1) \o <<Handler("console", n)>>
       \o (IF "logfile" \in o.keys THEN <<Handler("file", n)>> ELSE <<>>)

\* __init__: the logger set-up, then self.verify_options()
Init_VerifyOptions ==
    /\ pc = "init_verify"
    /\ handlers' = Reattach(handlers, config, restarts + 1)
    /\ LET r == VerifyOptions(config) IN
         /\ IF r.result = "ok"
              THEN NoRaise("init_login")
              ELSE ConstructorRaises(r.result, "verify_options")
         /\ use_oauth' = r.use_oauth
         /\ use_mako' = r.use_mako
    /\ UNCHANGED <<config, startupDone, restarts, plugins, ctorOk, verifyRaised,
                   worldVars, scanVars, psVars, publishAttempts, postHist>>

\* __init__: self.login(); logging into reddit may fail.
Init_Login ==
    /\ pc = "init_login"
    /\ \/ NoRaise("init_load_plugins")
       \/ ConstructorRaises("Exception", "login")
    /\ UNCHANGED <<mainVars, worldVars, scanVars, psVars, publishAttempts, postHist>>

\* load_plugins(): every discovered class is constructed; the classes in
\* `ok` are those whose constructor returns, the others raise, are logged
\* and skipped.
LoadedPlugins_StopAtFailure(ok) ==
    LET bad == {i \in 1..Len(PluginClasses) : i \notin ok}
        n == IF bad = {} THEN Len(PluginClasses)
             ELSE (CHOOSE i \in bad : \A j \in bad : i <= j) - 1
    IN  [j \in 1..n |-> PluginClasses[j]]

LoadedPlugins(ok) ==
    LET Pick(i) == i \in ok
        idx == SelectSeq([i \in 1..Len(PluginClasses) |-> i], Pick)
    IN  [j \in 1..Len(idx) |-> PluginClasses[idx[j]]]

\* self.load_plugins(); importing a plugin module happens outside the try
\* block and may raise out of load_plugins and __init__.
Init_LoadPlugins ==
    /\ pc = "init_load_plugins"
    /\ \/ /\ \E ok \in SUBSET (1..Len(PluginClasses)) :
                /\ plugins' = LoadedPlugins(ok)
                /\ ctorOk' = ok
          /\ NoRaise("init_plugin_verify")
       \/ /\ ConstructorRaises("Exception", "import_module")
          /\ UNCHANGED <<plugins, ctorOk>>
    /\ UNCHANGED <<config, startupDone, restarts, use_oauth, use_mako, verifyRaised,
                   handlers,
                   worldVars,
                   scanVars, psVars, publishAttempts, postHist>>

\* How verify_options of a plugin can end: it returns, or it raises the
\* configuration error.
VerifyEnds == {"ok", "LapisError"}

\* What call_plugin_function lets out of an exception a plugin raised:
\* nothing, `except Exception` catches LapisError like any other.
PluginRaised(type) == NoRaise("init_plugin_calls")

\* __init__: self.call_plugin_function('verify_options', self.options)
Init_PluginVerify ==
    /\ pc = "init_plugin_verify"
    /\ \E ends \in [{j \in 1..Len(plugins) : HasAttr(plugins[j], "verify_options")}
                     -> VerifyEnds] :
         IF \E j \in DOMAIN ends : ends[j] = "LapisError"
           THEN /\ verifyRaised' = TRUE
                /\ PluginRaised("LapisError")
           ELSE /\ verifyRaised' = FALSE
                /\ NoRaise("init_plugin_calls")
    /\ UNCHANGED <<config, startupDone, restarts, use_oauth, use_mako, plugins, ctorOk,
                   handlers,
                   worldVars, scanVars, psVars, publishAttempts, postHist>>

\* __init__: self.call_plugin_function('login'); whatever a plugin raises
\* there is caught inside call_plugin_function.  __init__ returns, and main()
\* calls scan_submissions().
Init_PluginCalls ==
    /\ pc = "init_plugin_calls"
    /\ NoRaise("scan_forward")
    /\ startupDone' = TRUE
    /\ NewScan
    /\ UNCHANGED <<config, restarts, use_oauth, use_mako, plugins, ctorOk, verifyRaised,
                   handlers,
                   worldVars, psVars, postHist>>

\* main(): the handlers around lapis.scan_submissions().  LapisError breaks
\* out of the loop; anything else is logged, then time.sleep(10) and
\* lapis = LapisLazuli(**config).  The frames of scan_submissions and
\* process_submission are gone.
Main_Except ==
    /\ pc = "main_except"
    /\ IF exc = "LapisError"
         THEN /\ pc' = "exited"
              /\ UNCHANGED <<exc, excOrigin, restarts>>
         ELSE /\ restarts < MaxRestarts
              /\ restarts' = restarts + 1
              /\ exc' = "none"
              /\ excOrigin' = "none"
              /\ pc' = "init_verify"
    /\ NewScan
    /\ NoLocals
    /\ NoFlags
    /\ UNCHANGED <<config, startupDone, use_oauth, use_mako, plugins, ctorOk, verifyRaised,
                   handlers,
                   worldVars>>

\* ------------------------------------------------------- scan_submissions
\* Where an exception that leaves scan_submissions goes: main()'s handlers.
EscapeScan(type, origin) == Raise(type, origin, "main_except")

\* The head of `while True`: with forward_replies set, the unread messages
\* are fetched and forwarded; reddit.get_unread() is outside any try block.
Scan_Forward ==
    /\ pc = "scan_forward"
    /\ cycles < MaxCycles
    /\ cycles' = cycles + 1
    /\ IF config.forward_replies
         THEN \/ NoRaise("scan_fetch")
              \/ EscapeScan("Exception", "get_unread")
         ELSE NoRaise("scan_fetch")
    /\ verifyRaised' = FALSE
    /\ UNCHANGED <<config, startupDone, restarts, use_oauth, use_mako, plugins, ctorOk,
                   handlers,
                   worldVars, done, listing, li, psVars, publishAttempts, postHist>>

Min(a, b) == IF a < b THEN a ELSE b

\* sr.get_new(limit=scan_limit): the newest posts, newest first.
NewestPosts(n) == [j \in 1..Min(n, MaxListing) |-> PostId(n - j + 1)]

\* The feed is queried; posts may have been submitted since the last query.
Scan_Fetch ==
    /\ pc = "scan_fetch"
    /\ \/ /\ \E n \in arrived..NumPosts :
                /\ arrived' = n
                /\ listing' = NewestPosts(n)
          /\ li' = 1
          /\ NoRaise("scan_post")
       \/ /\ EscapeScan("Exception", "get_new")
          /\ UNCHANGED <<arrived, listing, li>>
    /\ UNCHANGED <<mainVars, commented, inbox, items, done, cycles, psVars, publishAttempts,
                   postHist>>

\* `submission.id not in done`
NotInDone_Always(id, d) == TRUE

NotInDone(id, d) == \A j \in 1..Len(d) : d[j] # id

\* The head of `for submission in ...`: the next submission is taken and,
\* unless its id is in done, process_submission is entered.
Scan_NextPost ==
    /\ pc = "scan_post"
    /\ pc' = IF li > Len(listing) THEN "scan_sleep"
             ELSE IF NotInDone(CurPost, done) THEN "ps_comments"
             ELSE "scan_append"
    /\ NoFlags
    /\ UNCHANGED <<exc, excOrigin, mainVars, worldVars, scanVars, psVars,
                   publishAttempts, callHist>>

\* `except Exception:` around process_submission: the message is built with
\* '%d' % submission.id before it is logged.
Scan_Except ==
    /\ pc = "scan_except"
    /\ IF PercentD(CurPost) = "ok"
         THEN /\ exc' = "none"
              /\ excOrigin' = "none"
              /\ pc' = "scan_append"
         ELSE EscapeScan(PercentD(CurPost), "scan_handler")
    /\ UNCHANGED <<mainVars, worldVars, scanVars, psVars, publishAttempts, postHist>>

\* done.append(submission.id)
DoneAppend_Nothing(d, id) == d

DoneAppend(d, id) == Append(d, id)

Scan_Append ==
    /\ pc = "scan_append"
    /\ done' = DoneAppend(done, CurPost)
    /\ li' = li + 1
    /\ NoRaise("scan_post")
    /\ NoLocals
    /\ UNCHANGED <<mainVars, worldVars, cycles, listing, publishAttempts, flagHist>>

\* `if self.use_oauth: self.oauth_refresh()` after the sleep: where the loop
\* goes on.
AfterSleep_Always(oauth) == "scan_refresh"

AfterSleep_Returns(oauth) == "main_except"

AfterSleep(oauth) == IF oauth THEN "scan_refresh" ELSE "scan_forward"

\* time.sleep(delay_interval)
Scan_Sleep ==
    /\ pc = "scan_sleep"
    /\ NoRaise(AfterSleep(use_oauth))
    /\ UNCHANGED <<mainVars, worldVars, scanVars, psVars, publishAttempts, postHist>>

\* oauth_refresh(), only with use_oauth
Scan_Refresh ==
    /\ pc = "scan_refresh"
    /\ \/ NoRaise("scan_forward")
       \/ EscapeScan("Exception", "oauth_refresh")
    /\ UNCHANGED <<mainVars, worldVars, scanVars, psVars, publishAttempts, postHist>>

\* ---------------------------------------------------- call_plugin_function
\* The loop `for plugin in self.plugins` with `if hasattr(plugin, func_name)`:
\* the index of the first plugin at or after `from` that defines func, or
\* Len(ps) + 1 when the loop ends without another call.
NextWith_FirstMatch(ps, func, from) ==
    LET S == {j \in from..Len(ps) : HasAttr(ps[j], func) /\ from = 1}
    IN  IF S = {} THEN Len(ps) + 1 ELSE CHOOSE j \in S : \A i \in S : j <= i

NextWith(ps, func, from) ==
    LET S == {j \in from..Len(ps) : HasAttr(ps[j], func)}
    IN  IF S = {} THEN Len(ps) + 1 ELSE CHOOSE j \in S : \A i \in S : j <= i

\* `if import_data: returns.append(import_data)`
Returned(returns, v) == IF Truthy(v) THEN Append(returns, v) ELSE returns

\* `except Exception:` inside the loop: the error is logged and the loop goes
\* on with the plugin after the one at index j.
AfterRaise_Abort(func, j) == Len(plugins) + 1

AfterRaise(func, j) == NextWith(plugins, func, j + 1)

\* The entry of `calls` for one call: the plugin, whether it raised, and the
\* value it returned.
CallEntry(plugin, raised, v) == [plugin |-> plugin.name, raised |-> raised, value |-> v]

\* ------------------------------------------------------ process_submission
\* Where an exception that leaves process_submission goes: the handler in
\* scan_submissions.
EscapeProcess(origin) ==
    /\ Raise("Exception", origin, "scan_except")
    /\ psRaised' = TRUE

\* process_submission returns.
Return == NoRaise("scan_append")

\* any(comment.author.name == self.username for comment in
\* submission.comments if comment.author)
AlreadyCommented_Never(post, c) == FALSE

AlreadyCommented(post, c) == post \in c

\* The bot looks for a comment of its own among submission.comments, which
\* are fetched from reddit on first use.
PS_Comments ==
    /\ pc = "ps_comments"
    /\ \/ /\ EscapeProcess("submission.comments")
          /\ UNCHANGED <<importFalsy, importEnded, addCommentCalled, pubFailed,
                         rollbackRuns, deleteRaised, stickyResult, ownComment>>
          /\ UNCHANGED k
       \/ /\ IF AlreadyCommented(CurPost, commented)
                THEN /\ Return
                     /\ UNCHANGED k
                ELSE /\ NoRaise("ps_import")
                     /\ k' = NextWith(plugins, "import_submission", 1)
          /\ ownComment' = (CurPost \in commented)
          /\ UNCHANGED <<importFalsy, importEnded, addCommentCalled, pubFailed,
                         rollbackRuns, deleteRaised, stickyResult, psRaised>>
    /\ UNCHANGED <<mainVars, worldVars, scanVars, import_results, ii,
                   export_results, export_table, links_display, ridx,
                   publishAttempts, callHist>>

\* call_plugin_function('import_submission', submission=submission), one
\* call per step: an exception is logged, a truthy result is appended to the
\* returned list.
PS_ImportCall ==
    /\ pc = "ps_import"
    /\ k <= Len(plugins)
    /\ LET plugin == plugins[k] IN
         \E kind \in plugin.kinds :
            IF kind = "raise"
              THEN /\ calls' = Append(calls, CallEntry(plugin, TRUE, NoneImport))
                   /\ k' = AfterRaise("import_submission", k)
                   /\ UNCHANGED <<import_results, importFalsy>>
              ELSE LET v == ImportReturn(plugin, kind) IN
                     /\ calls' = Append(calls, CallEntry(plugin, FALSE, v))
                     /\ k' = NextWith(plugins, "import_submission", k + 1)
                     /\ import_results' = Returned(import_results, v)
                     /\ importFalsy' = (importFalsy /\ (v.isNone \/ v.keys = {}))
    /\ UNCHANGED <<pc, exc, excOrigin, mainVars, worldVars, scanVars, ii,
                   export_results, export_table, links_display, ridx,
                   publishAttempts, exportCalls, exportHits, deleteCalls,
                   importEnded, addCommentCalled, pubFailed, rollbackRuns,
                   deleteRaised, stickyResult, ownComment, psRaised>>

\* call_plugin_function returns; `if not any(import_results): return`
PS_ImportDone ==
    /\ pc = "ps_import"
    /\ k > Len(plugins)
    /\ IF ~PyAny(import_results) THEN Return ELSE NoRaise("ps_export")
    /\ k' = NextWith(plugins, "export_submission", 1)
    /\ calls' = <<>>
    /\ importEnded' = TRUE
    /\ UNCHANGED <<mainVars, worldVars, scanVars, import_results, ii,
                   export_results, export_table, links_display, ridx,
                   publishAttempts, exportCalls, exportHits, deleteCalls,
                   importFalsy, addCommentCalled, pubFailed, rollbackRuns,
                   deleteRaised, stickyResult, ownComment, psRaised>>

\* call_plugin_function('export_submission', **import_info) for the import
\* info at index ii of filter(None, import_results), one call per step.
PS_ExportCall ==
    /\ pc = "ps_export"
    /\ ii <= Len(FilterNone(import_results))
    /\ k <= Len(plugins)
    /\ LET plugin == plugins[k]
           info == FilterNone(import_results)[ii]
       IN  /\ exportCalls' = exportCalls \cup
                               {[import_info |-> info, plugin |-> plugin.name]}
           /\ \E kind \in plugin.kinds :
                IF kind = "raise"
                  THEN /\ calls' = Append(calls, CallEntry(plugin, TRUE, NoneExport))
                       /\ k' = AfterRaise("export_submission", k)
                       /\ UNCHANGED <<export_results, exportHits>>
                  ELSE LET v == ExportReturn(plugin, kind, info) IN
                         /\ calls' = Append(calls, CallEntry(plugin, FALSE, v))
                         /\ k' = NextWith(plugins, "export_submission", k + 1)
                         /\ export_results' = Returned(export_results, v)
                         /\ exportHits' =
                              IF ~v.isNone /\ v.keys # {}
                                THEN exportHits \cup {info} ELSE exportHits
    /\ UNCHANGED <<pc, exc, excOrigin, mainVars, worldVars, scanVars,
                   import_results, ii, export_table, links_display, ridx,
                   publishAttempts, deleteCalls, flagHist>>

\* any(export_results)
HasExports_Always(results) == TRUE

HasExports(results) == PyAny(results)

\* export_table.append((importer_display, export_results, import_info))
TableAppend_Front(table, entry) == <<entry>> \o table

TableAppend(table, entry) == Append(table, entry)

\* `if not any(export_results): continue`, else the entry is appended.
PS_ExportDone ==
    /\ pc = "ps_export"
    /\ ii <= Len(FilterNone(import_results))
    /\ k > Len(plugins)
    /\ export_table' =
         IF ~HasExports(export_results)
           THEN export_table
           ELSE TableAppend(export_table,
                            [import_info |-> FilterNone(import_results)[ii],
                             export_results |-> export_results])
    /\ export_results' = <<>>
    /\ ii' = ii + 1
    /\ k' = NextWith(plugins, "export_submission", 1)
    /\ calls' = <<>>
    /\ UNCHANGED <<pc, exc, excOrigin, mainVars, worldVars, scanVars,
                   import_results, links_display, ridx, publishAttempts,
                   exportCalls, exportHits, deleteCalls, flagHist>>

\* any(export_table): the entries are non-empty tuples, all truthy.
TableGate(table) == Len(table) > 0

\* `if not any(export_table): return`
PS_TableGate ==
    /\ pc = "ps_export"
    /\ ii > Len(FilterNone(import_results))
    /\ IF ~TableGate(export_table) THEN Return ELSE NoRaise("ps_compose")
    /\ UNCHANGED <<mainVars, worldVars, scanVars, psVars, publishAttempts, postHist>>

\* export_result.get('link_display', '') of every export result, in order
LinkDisplays_Reversed(results) ==
    [i \in 1..Len(results) |-> results[Len(results) - i + 1].link_display]

RECURSIVE LinkDisplays(_)
LinkDisplays(results) ==
    IF results = <<>> THEN <<>>
    ELSE <<Head(results).link_display>> \o LinkDisplays(Tail(results))

RECURSIVE LinksDisplayParts(_)
\* links_display_parts: header, link displays and footer of every entry
LinksDisplayParts(table) ==
    IF table = <<>> THEN <<>>
    ELSE <<Head(table).import_info.header>>
           \o LinkDisplays(Head(table).export_results)
           \o <<Head(table).import_info.footer>>
           \o LinksDisplayParts(Tail(table))

RECURSIVE Join(_)
\* ''.join(parts)
Join(parts) ==
    IF parts = <<>> THEN <<>> ELSE Head(parts) \o Join(Tail(parts))

\* The links are joined and the reply text is made from the template;
\* mako's render() or str.format() may raise.
PS_Compose ==
    /\ pc = "ps_compose"
    /\ IF LinksDisplayParts(export_table) = <<>>
         THEN /\ Return
              /\ UNCHANGED <<links_display, flagHist>>
         ELSE /\ links_display' = Join(LinksDisplayParts(export_table))
              /\ \/ /\ NoRaise("ps_publish")
                    /\ UNCHANGED flagHist
                 \/ /\ EscapeProcess("template")
                    /\ UNCHANGED <<importFalsy, importEnded, addCommentCalled,
                                   pubFailed, rollbackRuns, deleteRaised,
                                   stickyResult, ownComment>>
    /\ UNCHANGED <<mainVars, worldVars, scanVars, k, import_results, ii,
                   export_results, export_table, ridx, publishAttempts, callHist>>

\* submission.add_comment(text), inside `try:`; when it raises, the
\* `except Exception:` block starts the cleanup.
PS_Publish ==
    /\ pc = "ps_publish"
    /\ publishAttempts' = [publishAttempts EXCEPT ![CurPost] = @ + 1]
    /\ addCommentCalled' = TRUE
    /\ \/ /\ commented' = commented \cup {CurPost}
          /\ NoRaise("ps_sticky")
          /\ UNCHANGED <<pubFailed, rollbackRuns>>
       \/ /\ pubFailed' = TRUE
          /\ rollbackRuns' = rollbackRuns + 1
          /\ NoRaise("ps_rollback")
          /\ UNCHANGED commented
    /\ UNCHANGED <<mainVars, arrived, inbox, items, scanVars, psVars, callHist, importFalsy,
                   importEnded, deleteRaised, stickyResult, ownComment, psRaised>>

\* How sticky_comment(comment) can end: it returns True; request_json raised
\* and it returns False; or a statement outside its try block raised (the
\* lookups before the request, or comment.permalink read for the last log
\* line).
StickyEnds == {"true", "false", "raise"}

\* self.sticky_comment(comment), still inside the `try:` of add_comment
PS_Sticky ==
    /\ pc = "ps_sticky"
    /\ \E end \in StickyEnds :
         /\ stickyResult' = end
         /\ IF end = "raise"
              THEN /\ rollbackRuns' = rollbackRuns + 1
                   /\ NoRaise("ps_rollback")
              ELSE /\ Return
                   /\ UNCHANGED rollbackRuns
    /\ UNCHANGED <<mainVars, worldVars, scanVars, psVars, publishAttempts, callHist,
                   importFalsy, importEnded, addCommentCalled, pubFailed,
                   deleteRaised, ownComment, psRaised>>

RECURSIVE FlatResults(_)
\* The export results in the order the cleanup loops visit them.
FlatResults(table) ==
    IF table = <<>> THEN <<>>
    ELSE Head(table).export_results \o FlatResults(Tail(table))

\* matched = [i for i in self.plugins if i.__class__.__name__ ==
\*            export_result['exporter'] and hasattr(i, 'delete_export')]
Matched_AnyName(rec, ps) ==
    LET Sel(p) == HasAttr(p, "delete_export") IN SelectSeq(ps, Sel)

Matched(rec, ps) ==
    LET Sel(p) == p.name = rec.exporter /\ HasAttr(p, "delete_export")
    IN  SelectSeq(ps, Sel)

\* `'delete_info' in export_result and 'exporter' in export_result`
Deletable(rec) == HasKey(rec, "delete_info") /\ HasKey(rec, "exporter")

\* `except Exception:` around the cleanup loops: what a delete_export raised
\* is logged, and process_submission returns.
CleanupCaught_Propagates == Raise("Exception", "delete_export", "scan_except")

CleanupCaught == Return

\* One export result of the cleanup loops: its matched plugins are called in
\* turn with **export_result; n of them return before one raises (n =
\* Len(matched): none raises).  The one try block around both loops catches
\* what a delete_export raises: it is logged and process_submission returns.
PS_RollbackStep ==
    /\ pc = "ps_rollback"
    /\ ridx <= Len(FlatResults(export_table))
    /\ LET rec == FlatResults(export_table)[ridx]
           matched == IF Deletable(rec) THEN Matched(rec, plugins) ELSE <<>>
       IN  \E n \in 0..Len(matched) :
             LET made == Min(n + 1, Len(matched)) IN
               /\ deleteCalls' = deleteCalls \o
                     [j \in 1..made |->
                        [ridx |-> ridx, plugin |-> matched[j],
                         delete_info |-> rec.delete_info, raised |-> j > n]]
               /\ deleteRaised' = (n < Len(matched))
               /\ IF n = Len(matched)
                    THEN /\ ridx' = ridx + 1
                         /\ UNCHANGED <<pc, exc, excOrigin>>
                    ELSE /\ CleanupCaught
                         /\ UNCHANGED ridx
    /\ UNCHANGED <<mainVars, worldVars, scanVars, k, import_results, ii,
                   export_results, export_table, links_display, publishAttempts, calls,
                   exportCalls, exportHits,
                   importFalsy, importEnded, addCommentCalled, pubFailed,
                   rollbackRuns, stickyResult, ownComment, psRaised>>

\* The cleanup loops end; `return`.
PS_RollbackDone ==
    /\ pc = "ps_rollback"
    /\ ridx > Len(FlatResults(export_table))
    /\ Return
    /\ UNCHANGED <<mainVars, worldVars, scanVars, psVars, publishAttempts, postHist>>

\* ------------------------------------------------------------ specification
Next ==
    \/ Main_LoadConfig
    \/ Init_VerifyOptions
    \/ Init_Login
    \/ Init_LoadPlugins
    \/ Init_PluginVerify
    \/ Init_PluginCalls
    \/ Main_Except
    \/ Scan_Forward
    \/ Scan_Fetch
    \/ Scan_NextPost
    \/ Scan_Except
    \/ Scan_Append
    \/ Scan_Sleep
    \/ Scan_Refresh
    \/ PS_Comments
    \/ PS_ImportCall
    \/ PS_ImportDone
    \/ PS_ExportCall
    \/ PS_ExportDone
    \/ PS_TableGate
    \/ PS_Compose
    \/ PS_Publish
    \/ PS_Sticky
    \/ PS_RollbackStep
    \/ PS_RollbackDone

Spec == Init /\ [][Next]_vars

\* The same program started with the OAuth configuration only: what
\* load_plugins, call_plugin_function and process_submission do does not
\* depend on the options verify_options looks at.
InitOAuth ==
    /\ pc = "main"
    /\ config = OAuthConfig
    /\ InitRest

SpecOAuth == InitOAuth /\ [][Next]_vars

\* ------------------------------------------- verify_options on its own
\* The option sets verify_options is applied to: every combination of the
\* keys it looks at, a complete, an incomplete and an empty reddit_oauth,
\* and every outcome of the file test, the template load and the formatting.
AllOptions ==
    { Options(TRUE, keys, oauth, exists, loads, formats, FALSE) :
        keys \in SUBSET OptionKeys,
        oauth \in {OAuthFields, OAuthFields \ {"scope"}, {}},
        exists \in BOOLEAN, loads \in BOOLEAN, formats \in BOOLEAN }

InitVerify ==
    /\ pc = "vo_call"
    /\ config \in AllOptions
    /\ InitRest

\* One call of verify_options on a fresh LapisLazuli object.
VO_Run ==
    /\ pc = "vo_call"
    /\ pc' = "vo_done"
    /\ LET r == VerifyOptions(config) IN
         /\ exc' = IF r.result = "ok" THEN "none" ELSE r.result
         /\ excOrigin' = IF r.result = "ok" THEN "none" ELSE "verify_options"
         /\ use_oauth' = r.use_oauth
         /\ use_mako' = r.use_mako
    /\ UNCHANGED <<config, startupDone, restarts, plugins, ctorOk, verifyRaised,
                   handlers,
                   worldVars, scanVars, psVars, publishAttempts, postHist>>

NextVerify == VO_Run

SpecVerify == InitVerify /\ [][NextVerify]_vars

\* ------------------------------------------------------------------ claims
\* x occurs in the sequence s
InSeq(x, s) == \E j \in 1..Len(s) : s[j] = x

\* The post whose processing the per-post history is about: the current one,
\* or at the head of the for loop the one just appended to done.
HistPost == IF pc = "scan_post" THEN listing[li - 1] ELSE CurPost

\* The per-post history is about a post (the for loop has taken one).
HasHistPost == IF pc = "scan_post" THEN li > 1 ELSE li <= Len(listing)

\* The active plugins whose class name is the record's exporter and which
\* define delete_export.
Owners(rec) ==
    {plugins[j] : j \in {i \in 1..Len(plugins) :
                            /\ plugins[i].name = rec.exporter
                            /\ "delete_export" \in plugins[i].caps}}

\* The plugins delete_export was called on for the export result at index i.
CalledFor(i) ==
    {deleteCalls[j].plugin : j \in {n \in 1..Len(deleteCalls) : deleteCalls[n].ridx = i}}

\* C1: within one invocation of scan_submissions, add_comment is attempted
\* at most once for every post, however many poll cycles return the post and
\* whether or not its import, export or publish succeeded.
C1_PublishAtMostOnce == \A p \in Posts : publishAttempts[p] <= 1

\* C1 witness: in the second cycle the feed returns a post again whose
\* publish was attempted and failed; it is passed over.
C1_Witness ==
    /\ cycles = 2
    /\ pc = "scan_append"
    /\ InSeq(CurPost, done)
    /\ publishAttempts[CurPost] = 1
    /\ CurPost \notin commented

\* C2 (as claimed): when add_comment raised, the cleanup makes exactly one
\* delete attempt for every export result that has delete_info and an
\* exporter resolving to a plugin with delete_export, also for those that
\* come after a result whose delete_export raised.
C2_EveryDeletableAttempted ==
    (pubFailed /\ pc = "scan_append") =>
       \A i \in 1..Len(FlatResults(export_table)) :
          LET rec == FlatResults(export_table)[i] IN
            ("delete_info" \in rec.keys /\ "exporter" \in rec.keys /\ Owners(rec) # {})
               => Cardinality({n \in 1..Len(deleteCalls) : deleteCalls[n].ridx = i}) = 1

\* C3 (as claimed): an exception raised by process_submission stays inside
\* scan_submissions: the handler logs it, the post is appended to done and
\* the loop goes on.
C3_PostExceptionContained ==
    psRaised =>
       /\ pc \in {"scan_except", "scan_append", "scan_post"}
       /\ (pc = "scan_post" => InSeq(HistPost, done))

\* C4 (as claimed): once startup has succeeded, no exception other than a
\* configuration error ends the process.
C4_NoCrashAfterStartup ==
    (startupDone /\ pc = "crashed") => exc = "LapisError"

\* C5: when add_comment raises, the cleanup runs once and process_submission
\* returns normally even if a delete_export raises; the post is appended to
\* done, the loop goes on, and publish is attempted once only for that post.
C5_PublishFailureContained ==
    /\ pubFailed =>
          /\ HasHistPost
          /\ rollbackRuns = 1
          /\ exc = "none"
          /\ ~psRaised
          /\ pc \in {"ps_rollback", "scan_append", "scan_post"}
          /\ (pc = "scan_post" => InSeq(HistPost, done))
          /\ publishAttempts[HistPost] = 1
    /\ \A p \in Posts :
          publishAttempts[p] > 0 =>
             \/ InSeq(p, done)
             \/ /\ li <= Len(listing)
                /\ CurPost = p
                /\ pc \in {"ps_sticky", "ps_rollback", "scan_append"}

\* C5 witness: add_comment raised, a delete_export raised during the
\* cleanup, and the loop is back at its head with the post in done and
\* another post to take.
C5_Witness ==
    /\ pubFailed
    /\ deleteRaised
    /\ pc = "scan_post"
    /\ InSeq(HistPost, done)
    /\ li <= Len(listing)

\* C6: during the cleanup delete_export is called for an export result only
\* if it has delete_info and exporter, then on exactly the active plugins
\* named by its exporter that define delete_export, with its delete_info; a
\* result without such a plugin, or without one of the keys, causes no call
\* and no error.
C6_DeleteOnlyOwners ==
    /\ \A n \in 1..Len(deleteCalls) :
          LET c == deleteCalls[n]
              rec == FlatResults(export_table)[c.ridx]
          IN  /\ "delete_info" \in rec.keys
              /\ "exporter" \in rec.keys
              /\ c.plugin.name = rec.exporter
              /\ "delete_export" \in c.plugin.caps
              /\ InSeq(c.plugin, plugins)
              /\ c.delete_info = rec.delete_info
    /\ \A i \in 1..Len(FlatResults(export_table)) :
          LET rec == FlatResults(export_table)[i]
              want == IF "delete_info" \in rec.keys /\ "exporter" \in rec.keys
                        THEN Owners(rec) ELSE {}
          IN  /\ CalledFor(i) # {} => CalledFor(i) = want
              /\ (pc \in {"ps_rollback", "scan_append"} /\ rollbackRuns > 0 /\ i < ridx)
                    => CalledFor(i) = want

\* C6 witness: a finished cleanup that called delete_export, and passed over
\* a result whose exporter has no delete_export and a result without both
\* keys.
C6_Witness ==
    /\ pc = "scan_append"
    /\ rollbackRuns = 1
    /\ ridx > Len(FlatResults(export_table))
    /\ deleteCalls # <<>>
    /\ \E i \in 1..Len(FlatResults(export_table)) :
          LET rec == FlatResults(export_table)[i] IN
            "delete_info" \in rec.keys /\ "exporter" \in rec.keys /\ Owners(rec) = {}
    /\ \E i \in 1..Len(FlatResults(export_table)) :
          LET rec == FlatResults(export_table)[i] IN
            ~("delete_info" \in rec.keys /\ "exporter" \in rec.keys)

\* C7 (as claimed): sticky_comment returns True or False and never raises,
\* so pinning never starts the cleanup of a published reply.
C7_StickyNeverRaises ==
    /\ stickyResult \in {"none", "true", "false"}
    /\ (addCommentCalled /\ ~pubFailed) => rollbackRuns = 0

\* C8: add_comment is called only when the export table is not empty and
\* every entry of it holds at least one truthy export result; with an empty
\* table process_submission ends without calling add_comment.
C8_PublishNeedsExports ==
    (pc \in {"ps_publish", "ps_sticky", "ps_rollback", "scan_append"}
       /\ (pc = "ps_publish" \/ addCommentCalled))
    => /\ Len(export_table) > 0
       /\ \A e \in 1..Len(export_table) :
            \E r \in 1..Len(export_table[e].export_results) :
               LET v == export_table[e].export_results[r] IN
                 ~v.isNone /\ v.keys # {}

\* C8 witness: a reply was published from a table with one entry, a second
\* import record having got no export.
C8_Witness ==
    /\ pc = "ps_sticky"
    /\ Len(import_results) = 2
    /\ Len(export_table) = 1

\* C9 (as claimed): export_submission is never called for an import record
\* whose import_urls is empty.
C9_NoExportForEmptyUrls ==
    \A c \in exportCalls : c.import_info.import_urls # <<>>

\* C9 (amended): export_submission is never called for a falsy import result
\* (None, the empty dict); a record that has keys but an empty import_urls
\* is passed to every plugin that defines export_submission.
C9_NoExportForFalsyImport ==
    /\ \A c \in exportCalls : ~c.import_info.isNone /\ c.import_info.keys # {}
    /\ pc \in {"ps_export", "ps_compose", "ps_publish", "ps_sticky", "ps_rollback"} =>
         \A i \in 1..Len(import_results) :
            (i < ii /\ ~import_results[i].isNone /\ import_results[i].keys # {}
                    /\ import_results[i].import_urls = <<>>)
            => \A j \in 1..Len(plugins) :
                  "export_submission" \in plugins[j].caps
                  => [import_info |-> import_results[i], plugin |-> plugins[j].name]
                        \in exportCalls

\* C9 witness: a record with an empty import_urls was exported and its
\* export is in the table.
C9_Witness ==
    /\ \E c \in exportCalls : c.import_info.import_urls = <<>>
    /\ \E e \in 1..Len(export_table) : export_table[e].import_info.import_urls = <<>>

\* C10: when no active plugin defines import_submission, or every call of it
\* returned a falsy result or raised, no export_submission is called, no
\* reply is published and the post is appended to done.
C10_NothingImported ==
    (importEnded /\ importFalsy) =>
       /\ HasHistPost
       /\ exportCalls = {}
       /\ ~addCommentCalled
       /\ deleteCalls = <<>>
       /\ pc \in {"scan_append", "scan_post"}
       /\ (pc = "scan_post" => InSeq(HistPost, done))

\* C10 witness: import and export plugins are active, every import call was
\* falsy or raised, and the post is in done.
C10_Witness ==
    /\ importEnded
    /\ importFalsy
    /\ pc = "scan_post"
    /\ InSeq(HistPost, done)
    /\ \E j \in 1..Len(plugins) : "import_submission" \in plugins[j].caps
    /\ \E j \in 1..Len(plugins) : "export_submission" \in plugins[j].caps

\* C11: when the post carries a comment of the bot's account,
\* process_submission returns before any import_submission is called: no
\* import result, no export, no publish and no delete exists for that post.
C11_OwnCommentShortCircuits ==
    ownComment =>
       /\ pc \in {"scan_append", "scan_post"}
       /\ import_results = <<>>
       /\ ~importEnded
       /\ exportCalls = {}
       /\ ~addCommentCalled
       /\ deleteCalls = <<>>

\* C11 witness: a post commented by the bot is taken while import plugins
\* are active, and process_submission has returned.
C11_Witness ==
    /\ ownComment
    /\ pc = "scan_append"
    /\ CurPost \in commented
    /\ \E j \in 1..Len(plugins) : "import_submission" \in plugins[j].caps

RECURSIVE ConcatFirst(_, _)
\* The concatenation of the first n texts of a sequence of texts.
ConcatFirst(texts, n) ==
    IF n = 0 THEN <<>> ELSE ConcatFirst(texts, n - 1) \o texts[n]

\* The block of one table entry: header, the link of every export result in
\* the order of the results, footer.
EntryBlock(entry) ==
    entry.import_info.header
      \o ConcatFirst([r \in 1..Len(entry.export_results) |->
                        entry.export_results[r].link_display],
                     Len(entry.export_results))
      \o entry.import_info.footer

\* The links text has been made for the current post.
LinksMade ==
    \/ pc \in {"ps_publish", "ps_sticky", "ps_rollback"}
    \/ pc = "scan_append" /\ addCommentCalled
    \/ pc = "scan_except" /\ excOrigin = "template"

\* C12: the links text of the reply is the concatenation, in table order, of
\* the blocks of the table entries (header, links in the order of the export
\* results, footer; what is missing counts as the empty text); with one
\* import and one export it is that header, the one link, that footer.
C12_LinksBlockInOrder ==
    LinksMade =>
       /\ links_display =
             ConcatFirst([e \in 1..Len(export_table) |-> EntryBlock(export_table[e])],
                         Len(export_table))
       /\ (Len(export_table) = 1 /\ Len(export_table[1].export_results) = 1) =>
             links_display = export_table[1].import_info.header
                               \o export_table[1].export_results[1].link_display
                               \o export_table[1].import_info.footer

\* C12 witness: a links text made from two entries, the first without header
\* and footer, the second with both and with two export results of which
\* one has no link_display.
C12_Witness ==
    /\ pc = "ps_publish"
    /\ Len(export_table) = 2
    /\ export_table[1].import_info.header = <<>>
    /\ export_table[2].import_info.header # <<>>
    /\ Len(export_table[2].export_results) = 2
    /\ \E r \in 1..2 : export_table[2].export_results[r].link_display = <<>>
    /\ \E r \in 1..2 : export_table[2].export_results[r].link_display # <<>>

\* C12 second witness case: one import, one export, one link.
C12_WitnessOneLink ==
    /\ pc = "ps_publish"
    /\ Len(export_table) = 1
    /\ Len(export_table[1].export_results) = 1
    /\ Len(links_display) = 3

\* A call_plugin_function is in progress, or has ended and has not returned.
InFanOut ==
    \/ pc = "ps_import"
    \/ pc = "ps_export" /\ ii <= Len(FilterNone(import_results))

\* The method that call_plugin_function is calling, and its list `returns`.
FanOutFunc == IF pc = "ps_import" THEN "import_submission" ELSE "export_submission"

FanOutReturns == IF pc = "ps_import" THEN import_results ELSE export_results

\* The names of the active plugins before index n that define func, in
\* registration order.
Definers(func, n) ==
    LET Sel(p) == func \in p.caps
    IN  [j \in 1..Len(SelectSeq(SubSeq(plugins, 1, n - 1), Sel)) |->
            SelectSeq(SubSeq(plugins, 1, n - 1), Sel)[j].name]

\* The values of the calls that returned something truthy, in call order.
TruthyValues(log) ==
    LET Sel(c) == ~c.raised /\ ~c.value.isNone /\ c.value.keys # {}
    IN  [j \in 1..Len(SelectSeq(log, Sel)) |-> SelectSeq(log, Sel)[j].value]

InPipeline ==
    pc \in {"ps_export", "ps_compose", "ps_publish", "ps_sticky", "ps_rollback"}

\* The position of the plugin of that class name in the active list.
PluginIndex(name) == CHOOSE j \in 1..Len(plugins) : plugins[j].name = name

\* The position of an import info in filter(None, import_results).
ImportIndex(info) ==
    CHOOSE i \in 1..Len(FilterNone(import_results)) : FilterNone(import_results)[i] = info

\* C13: the records of several import plugins are exported independently
\* (each processed record is passed to every export plugin), the import
\* results and the table entries are in the registration order of the import
\* plugins that produced them, whatever records got no export.
C13_TableInRegistrationOrder ==
    InPipeline =>
       /\ \A i, j \in 1..Len(import_results) :
             i < j => PluginIndex(import_results[i].source)
                        < PluginIndex(import_results[j].source)
       /\ \A e \in 1..Len(export_table) :
             \E i \in 1..Len(FilterNone(import_results)) :
                FilterNone(import_results)[i] = export_table[e].import_info
       /\ \A e, f \in 1..Len(export_table) :
             e < f => /\ ImportIndex(export_table[e].import_info)
                           < ImportIndex(export_table[f].import_info)
                      /\ PluginIndex(export_table[e].import_info.source)
                           < PluginIndex(export_table[f].import_info.source)
       /\ \A i \in 1..Len(FilterNone(import_results)) :
             i < ii => \A j \in 1..Len(plugins) :
                          "export_submission" \in plugins[j].caps
                          => [import_info |-> FilterNone(import_results)[i],
                              plugin |-> plugins[j].name] \in exportCalls

\* C13 witness: two import plugins returned a record and both records got
\* an export: the table has two entries.
C13_Witness ==
    /\ pc = "ps_compose"
    /\ Len(import_results) = 2
    /\ Len(export_table) = 2

\* C13 second witness case: the first of two records got no export, the
\* entry of the second is in the table.
C13_WitnessSkipped ==
    /\ pc = "ps_compose"
    /\ Len(import_results) = 2
    /\ Len(export_table) = 1
    /\ export_table[1].import_info = import_results[2]

\* C14: at every point of process_submission the table holds one entry for
\* each processed import record for which an export_submission call
\* returned a truthy result, and none for any other; every entry has a
\* non-empty export list made for the import record it keeps.
C14_TableMatchesExports ==
    /\ pc \in {"ps_comments", "ps_import"} => export_table = <<>>
    /\ InPipeline =>
          /\ \A i \in 1..Len(FilterNone(import_results)) :
                LET info == FilterNone(import_results)[i]
                    n == Cardinality({e \in 1..Len(export_table) :
                                        export_table[e].import_info = info})
                IN  n = IF i < ii /\ info \in exportHits THEN 1 ELSE 0
          /\ \A e \in 1..Len(export_table) :
                LET entry == export_table[e] IN
                  /\ \E i \in 1..Len(FilterNone(import_results)) :
                        FilterNone(import_results)[i] = entry.import_info
                  /\ Len(entry.export_results) > 0
                  /\ \A r \in 1..Len(entry.export_results) :
                        LET v == entry.export_results[r] IN
                          /\ ~v.isNone /\ v.keys # {}
                          /\ v.link_display # <<>> =>
                                v.link_display[1][3] = entry.import_info.source
                          /\ v.delete_info # <<>> =>
                                v.delete_info[2] = entry.import_info.source

\* C14 witness: while the second import record is being exported, the table
\* holds the entry of the first and the second already has a truthy export.
C14_Witness ==
    /\ pc = "ps_export"
    /\ ii = 2
    /\ Len(FilterNone(import_results)) = 2
    /\ Len(export_table) = 1
    /\ FilterNone(import_results)[2] \in exportHits

\* C16: when load_plugins has returned, the active plugins are exactly the
\* discovered classes whose constructor returned, each once, in discovery
\* order; a constructor that raised excludes that class only.
C16_ActiveSetIsConstructed ==
    pc \in {"init_plugin_verify", "init_plugin_calls", "scan_forward"} =>
       /\ Len(plugins) = Cardinality(ctorOk)
       /\ \A i \in ctorOk : \E j \in 1..Len(plugins) : plugins[j] = PluginClasses[i]
       /\ \A j \in 1..Len(plugins) :
             \E i \in ctorOk : plugins[j] = PluginClasses[i]
       /\ \A a \in 1..(Len(plugins) - 1) :
             (CHOOSE i \in ctorOk : plugins[a] = PluginClasses[i])
                < (CHOOSE i \in ctorOk : plugins[a + 1] = PluginClasses[i])

\* C16 witness: the second constructor raised; the first, third and fourth
\* classes are active.
C16_Witness ==
    /\ pc = "init_plugin_verify"
    /\ ctorOk = {1, 3, 4}
    /\ Len(plugins) = 3
    /\ plugins[3] = PluginClasses[4]

\* C17 (as claimed): when a plugin's verify_options raises the configuration
\* error, the construction fails and the process ends; no scan starts.
C17_PluginConfigErrorIsFatal ==
    verifyRaised => pc = "crashed"

\* The conditions under which a configuration is acceptable, as the claim
\* words them.
Acceptable(o) ==
    /\ "subreddit" \in o.keys
    /\ \/ "reddit_oauth" \in o.keys /\ \A f \in OAuthFields : f \in o.oauth
       \/ /\ "reddit_oauth" \notin o.keys
          /\ "reddit_user" \in o.keys
          /\ "reddit_password" \in o.keys
    /\ "maintainer" \in o.keys
    /\ "post_template_file" \in o.keys =>
          "post_template" \notin o.keys /\ o.template_exists

\* On acceptance OAuth mode is on exactly with reddit_oauth, and the template
\* engine exactly with post_template_file.
ModesFollowKeys ==
    /\ use_oauth <=> "reddit_oauth" \in config.keys
    /\ use_mako <=> "post_template_file" \in config.keys

\* C18 (as claimed): verify_options accepts a configuration if and only if
\* it is acceptable, raises LapisError otherwise, and on acceptance the modes
\* follow the keys.
C18_AcceptsIffAcceptable ==
    pc = "vo_done" =>
       /\ exc = "none" <=> Acceptable(config)
       /\ exc # "none" => exc = "LapisError"
       /\ exc = "none" => ModesFollowKeys

\* C18 (amended): verify_options raises LapisError if and only if the
\* configuration is not acceptable; an acceptable one is accepted unless
\* loading the template file or formatting the useragent raises, and then
\* that exception, which is no LapisError, leaves verify_options; on
\* acceptance the modes follow the keys.
C18_RejectsIffNotAcceptable ==
    pc = "vo_done" =>
       /\ exc = "LapisError" <=> ~Acceptable(config)
       /\ Acceptable(config) =>
             (exc = "none" <=>
                /\ "post_template_file" \in config.keys => config.template_loads
                /\ config.useragent_formats)
       /\ exc \in {"none", "LapisError", "Exception"}
       /\ exc = "none" => ModesFollowKeys

\* C18 witness: an OAuth configuration with a template file is accepted,
\* with OAuth mode and the template engine on.
C18_Witness ==
    /\ pc = "vo_done"
    /\ exc = "none"
    /\ "reddit_oauth" \in config.keys
    /\ "reddit_user" \notin config.keys
    /\ "post_template_file" \in config.keys
    /\ use_oauth
    /\ use_mako

\* C19 (as claimed): a configuration error is never retried: raised at
\* startup it ends the process before any scan cycle and without a recovery,
\* and main() stops on it without reconstructing; any other exception that
\* escapes the scan loop leads, after the cooldown, to a reconstructed system
\* and a new scan loop, not to the end of the process.
C19_OnlyConfigErrorStops ==
    /\ (exc = "LapisError" /\ pc \in {"crashed", "exited"}) =>
          /\ restarts = 0
          /\ cycles = 0
          /\ ~startupDone
    /\ pc = "exited" => exc = "LapisError"
    /\ (restarts > 0 /\ pc \in {"crashed", "exited"}) => exc = "LapisError"

\* The part of C19 that the program keeps: a configuration error ends the
\* process at startup, before any scan cycle and without a recovery, and
\* main() leaves its loop on nothing else.
C19_ConfigErrorAtStartupOnly ==
    /\ (exc = "LapisError" /\ pc \in {"crashed", "exited"}) =>
          /\ restarts = 0
          /\ cycles = 0
          /\ ~startupDone
    /\ pc = "exited" => exc = "LapisError"

\* C20 (as claimed): the list of seen posts only grows while the process
\* runs: every step keeps the ids it holds, in particular the recovery of
\* main() after an error.
C20_SeenSetAppendOnly ==
    [][/\ Len(done') >= Len(done)
       /\ \A j \in 1..Len(done) : done'[j] = done[j]]_vars

\* The steps of scan_submissions' loop, in the positions of the model.
ScanPcs == {"scan_forward", "scan_fetch", "scan_post", "scan_except", "scan_append",
            "scan_sleep", "scan_refresh"}

\* C21: every cycle runs its steps in this order: the unread messages are
\* looked at only with forward_replies; then the fetch; every post not in
\* done is processed and every fetched post is in done when the sleep
\* starts; after the sleep the token is refreshed with use_oauth and only
\* then, once, and the next cycle starts after it.
C21_CycleOrder ==
    [][/\ (pc' = "scan_fetch" /\ pc # "scan_fetch") =>
             /\ pc = "scan_forward"
             /\ cycles' = cycles + 1
       /\ (pc = "scan_forward" /\ excOrigin' = "get_unread") => config.forward_replies
       /\ (pc = "scan_fetch" /\ pc' # "scan_fetch") => pc' \in {"scan_post", "main_except"}
       /\ (pc = "scan_post" /\ pc' # "scan_post") =>
             pc' = IF li > Len(listing) THEN "scan_sleep"
                   ELSE IF \E j \in 1..Len(done) : done[j] = listing[li]
                          THEN "scan_append"
                          ELSE "ps_comments"
       /\ (pc' = "scan_sleep" /\ pc # "scan_sleep") =>
             /\ pc = "scan_post"
             /\ \A j \in 1..Len(listing) : InSeq(listing[j], done)
       /\ (pc = "scan_sleep" /\ pc' # "scan_sleep") =>
             /\ pc' = IF use_oauth THEN "scan_refresh" ELSE "scan_forward"
             /\ cycles' = cycles
       /\ (pc' = "scan_refresh" /\ pc # "scan_refresh") =>
             /\ pc = "scan_sleep"
             /\ "reddit_oauth" \in config.keys
       /\ (pc = "scan_refresh" /\ pc' # "scan_refresh") =>
             pc' \in {"scan_forward", "main_except"}
       /\ (pc' = "scan_forward" /\ pc # "scan_forward" /\ cycles > 0) =>
             \/ pc = "scan_refresh"
             \/ pc = "scan_sleep" /\ "reddit_oauth" \notin config.keys]_vars

\* C21 witness: the fetch of the second cycle in OAuth mode with forwarding,
\* the posts of the first cycle in done: forward, fetch, process, sleep and
\* refresh have run once, and forward again.
C21_Witness ==
    /\ pc = "scan_fetch"
    /\ cycles = 2
    /\ use_oauth
    /\ config.forward_replies
    /\ Len(done) = 2

\* C21 second witness case: password mode without forwarding, the second
\* cycle starts right after the sleep.
C21_WitnessPassword ==
    /\ pc = "scan_fetch"
    /\ cycles = 2
    /\ ~use_oauth
    /\ ~config.forward_replies
    /\ Len(done) = 2

\* C22 (as claimed): with forward_replies set, no failure of the forwarding
\* step leaves the cycle: an exception of reddit.get_unread() never reaches
\* the handlers of main().
C22_ForwardFailureSwallowed ==
    config.forward_replies =>
       ~(pc = "main_except" /\ exc # "none" /\ excOrigin = "get_unread")

\* C23: posts are handled one at a time and plugins are called one at a
\* time: delete_export is called only inside the cleanup of the current
\* post, which is not in done yet; a post whose publish failed is appended
\* to done when its cleanup has ended; and process_submission is entered for
\* a post only when every earlier post of the listing is in done and nothing
\* of the earlier pipeline is left.
C23_OnePostAtATime ==
    [][/\ (deleteCalls' # deleteCalls /\ deleteCalls' # <<>>) =>
             /\ pc = "ps_rollback"
             /\ ~InSeq(CurPost, done)
             /\ done' = done
             /\ li' = li
       /\ Len(calls') <= Len(calls) + 1
       /\ Len(deleteCalls') <= Len(deleteCalls) + 1
       /\ (done' # done /\ done' # <<>>) =>
             /\ pc = "scan_append"
             /\ done' = Append(done, CurPost)
             /\ li' = li + 1
             /\ pubFailed =>
                   /\ rollbackRuns = 1
                   /\ \/ deleteRaised
                      \/ ridx > Len(FlatResults(export_table))
       /\ pc' = "ps_comments" =>
             /\ pc = "scan_post"
             /\ \A j \in 1..(li - 1) : InSeq(listing[j], done)
             /\ ~InSeq(CurPost, done)
             /\ export_table = <<>> /\ import_results = <<>>
             /\ calls = <<>> /\ deleteCalls = <<>>
       /\ (pc \in {"ps_comments", "ps_import", "ps_export", "ps_compose",
                    "ps_publish", "ps_sticky", "ps_rollback"}) =>
             /\ li' = li
             /\ listing' = listing
             /\ done' = done]_vars

\* C23 witness: add_comment raised, the cleanup visited every export result
\* and made two delete_export calls, process_submission has returned and the
\* post is about to be appended, with another post of the listing waiting.
C23_Witness ==
    /\ pc = "scan_append"
    /\ pubFailed
    /\ ~deleteRaised
    /\ Len(deleteCalls) = 2
    /\ ridx > Len(FlatResults(export_table))
    /\ li = 1
    /\ Len(listing) = 2
    /\ ~InSeq(CurPost, done)

\* --------------------------------------------- the bundled export plugins
\* Longest import_urls list handed to the bundled exporters.
MaxUrls == 2

\* The export plugins of src/plugins as objects: the class name, the methods
\* the class defines, and (ImgurPlugin) whether self.client is set.
BundledExporters(client) ==
    << [name |-> "ImgurPlugin", client |-> client,
        caps |-> {"export_submission", "delete_export", "login"}],
       [name |-> "VidmePlugin", client |-> FALSE,
        caps |-> {"export_submission", "login"}],
       [name |-> "RawVideoPlugin", client |-> FALSE,
        caps |-> {"export_submission"}] >>

\* An import info with n urls, for a video or for images.
MediaInfo(video, n) ==
    [isNone |-> FALSE, keys |-> {"import_urls", "video"}, source |-> "tumblr",
     video |-> video, import_urls |-> [j \in 1..n |-> j],
     header |-> <<>>, footer |-> <<>>]

\* The dictionary an exporter builds: `keys` are the keys it has set.
BundledRecord(name, keys) ==
    [isNone |-> FALSE, keys |-> keys,
     exporter |-> IF "exporter" \in keys THEN name ELSE "",
     link_display |-> IF "link_display" \in keys THEN <<<<"link", name>>>> ELSE <<>>,
     delete_info |-> <<>>]

\* How one call of an exporter ends: it raised, or it returned `value`;
\* `deletes` counts the delete_export calls it made on the way.
Ended(raised, value, deletes) == [raised |-> raised, value |-> value, deletes |-> deletes]

\* ImgurPlugin.export_submission, `if not self.client: return None` and
\* `if video: return None`
ImgurSkips_NoClient(client, video) == ~client

ImgurSkips(client, video) == ~client \/ video

\* What the calls of the imgur client can do.
AlbumEnds == {"ok", "ratelimit", "exception"}

UploadEnds == {"ok", "ratelimit", "exception"}

\* ImgurPlugin.delete_export: True, False (URLError), or another exception.
DeleteEnds == {"true", "false", "raise"}

\* The first upload that does not return, or n + 1.
FirstFailed(ups, n) ==
    IF \A j \in 1..n : ups[j] = "ok" THEN n + 1
    ELSE CHOOSE j \in 1..n : ups[j] # "ok" /\ \A i \in 1..(j - 1) : ups[i] = "ok"

\* ImgurPlugin.export_submission(**info): album is how create_album ends,
\* ups[j] how the upload of url j ends, del how every delete_export ends.
ImgurExport(plugin, info, album, ups, del) ==
    LET n == Len(info.import_urls)
        is_album == n > 1
        f == FirstFailed(ups, n)
        results == BundledRecord("ImgurPlugin", {"exporter"})
    IN  IF ImgurSkips(plugin.client, info.video) THEN Ended(FALSE, NoneExport, 0)
        ELSE IF n = 0 THEN Ended(FALSE, NoneExport, 0)
        ELSE IF is_album /\ album # "ok" THEN Ended(FALSE, NoneExport, 0)
        ELSE IF f > n
               THEN Ended(FALSE, BundledRecord("ImgurPlugin", {"exporter", "link_display"}), 0)
        ELSE IF ups[f] = "ratelimit" THEN Ended(FALSE, NoneExport, 0)
        \* `except Exception:` the uploaded images, then the album, are deleted
        ELSE IF del # "raise"
               THEN Ended(FALSE, results, (f - 1) + (IF is_album THEN 1 ELSE 0))
        \* a delete_export raised inside the handler: the outer handler
        ELSE IF f = 1 /\ ~is_album THEN Ended(FALSE, results, 0)
        ELSE IF is_album THEN Ended(TRUE, NoneExport, 2)
        ELSE Ended(FALSE, results, 1)

\* VidmePlugin: the login check and the upload request.
LoginEnds == {"ok", "fail"}

GrabEnds == {"ok", "notok", "raise"}

\* VidmePlugin.export_submission(**info)
VidmeExport(plugin, info, login, grab) ==
    IF ~(info.video /\ Len(info.import_urls) > 0) THEN Ended(FALSE, NoneExport, 0)
    ELSE IF login = "fail" THEN Ended(FALSE, NoneExport, 0)
    ELSE IF grab = "raise" THEN Ended(TRUE, NoneExport, 0)
    ELSE IF grab = "notok" THEN Ended(FALSE, NoneExport, 0)
    ELSE Ended(FALSE, BundledRecord("VidmePlugin", {"exporter", "link_display"}), 0)

\* RawVideoPlugin: what the HEAD request of one url shows.
HeadEnds == {"video", "other", "notok", "raise"}

\* RawVideoPlugin.export_submission(**info)
RawVideoExport(plugin, info, heads) ==
    LET n == Len(info.import_urls) IN
    IF ~info.video THEN Ended(FALSE, NoneExport, 0)
    ELSE IF \E j \in 1..n : heads[j] = "raise" /\ \A i \in 1..(j - 1) : heads[i] # "raise"
           THEN Ended(TRUE, NoneExport, 0)
    ELSE IF \A j \in 1..n : heads[j] # "video" THEN Ended(FALSE, NoneExport, 0)
    ELSE Ended(FALSE, BundledRecord("RawVideoPlugin", {"link_display"}), 0)

\* One import info is handed to every bundled exporter, as
\* call_plugin_function('export_submission', **import_info) does.
InitExporters ==
    /\ pc = "ex_export"
    /\ config = OAuthConfig
    /\ exc = "none"
    /\ excOrigin = "none"
    /\ startupDone = TRUE
    /\ restarts = 0
    /\ use_oauth = VerifyOptions(OAuthConfig).use_oauth
    /\ use_mako = VerifyOptions(OAuthConfig).use_mako
    /\ \E client \in BOOLEAN : plugins = BundledExporters(client)
    /\ ctorOk = {}
    /\ verifyRaised = FALSE
    /\ handlers = Reattach(<<>>, OAuthConfig, 1)
    /\ arrived = 0
    /\ commented = {}
    /\ inbox = NoMessages
    /\ items = <<>>
    /\ done = <<>>
    /\ cycles = 0
    /\ listing = <<>>
    /\ li = 1
    /\ k = 1
    /\ \E video \in BOOLEAN, n \in 0..MaxUrls : import_results = <<MediaInfo(video, n)>>
    /\ ii = 1
    /\ export_results = <<>>
    /\ export_table = <<>>
    /\ links_display = <<>>
    /\ ridx = 1
    /\ publishAttempts = [p \in Posts |-> 0]
    /\ calls = <<>>
    /\ exportCalls = {}
    /\ exportHits = {}
    /\ deleteCalls = <<>>
    /\ importFalsy = FALSE
    /\ importEnded = TRUE
    /\ addCommentCalled = FALSE
    /\ pubFailed = FALSE
    /\ rollbackRuns = 0
    /\ deleteRaised = FALSE
    /\ stickyResult = "none"
    /\ ownComment = FALSE
    /\ psRaised = FALSE

\* The call of one exporter and what call_plugin_function does with its end.
EX_Record(plugin, end) ==
    /\ calls' = Append(calls, [plugin |-> plugin.name, raised |-> end.raised,
                               value |-> end.value, deletes |-> end.deletes])
    /\ export_results' = IF end.raised THEN export_results
                         ELSE Returned(export_results, end.value)
    /\ k' = k + 1

EX_Imgur ==
    /\ pc = "ex_export"
    /\ k <= Len(plugins)
    /\ plugins[k].name = "ImgurPlugin"
    /\ LET info == import_results[ii] IN
         \E album \in AlbumEnds, del \in DeleteEnds,
            ups \in [1..Len(info.import_urls) -> UploadEnds] :
              EX_Record(plugins[k], ImgurExport(plugins[k], info, album, ups, del))
    /\ UNCHANGED <<pc, exc, excOrigin, mainVars, worldVars, scanVars, import_results, ii,
                   export_table, links_display, ridx, publishAttempts, exportCalls,
                   exportHits, deleteCalls, flagHist>>

EX_Vidme ==
    /\ pc = "ex_export"
    /\ k <= Len(plugins)
    /\ plugins[k].name = "VidmePlugin"
    /\ \E login \in LoginEnds, grab \in GrabEnds :
          EX_Record(plugins[k], VidmeExport(plugins[k], import_results[ii], login, grab))
    /\ UNCHANGED <<pc, exc, excOrigin, mainVars, worldVars, scanVars, import_results, ii,
                   export_table, links_display, ridx, publishAttempts, exportCalls,
                   exportHits, deleteCalls, flagHist>>

EX_RawVideo ==
    /\ pc = "ex_export"
    /\ k <= Len(plugins)
    /\ plugins[k].name = "RawVideoPlugin"
    /\ LET info == import_results[ii] IN
         \E heads \in [1..Len(info.import_urls) -> HeadEnds] :
            EX_Record(plugins[k], RawVideoExport(plugins[k], info, heads))
    /\ UNCHANGED <<pc, exc, excOrigin, mainVars, worldVars, scanVars, import_results, ii,
                   export_table, links_display, ridx, publishAttempts, exportCalls,
                   exportHits, deleteCalls, flagHist>>

\* call_plugin_function returns the list of truthy results.
EX_Done ==
    /\ pc = "ex_export"
    /\ k > Len(plugins)
    /\ pc' = "ex_done"
    /\ UNCHANGED <<exc, excOrigin, mainVars, worldVars, scanVars, psVars,
                   publishAttempts, postHist>>

NextExporters == EX_Imgur \/ EX_Vidme \/ EX_RawVideo \/ EX_Done

SpecExporters == InitExporters /\ [][NextExporters]_vars

\* ------------------------------------------------- progress of the scan loop
\* Active plugins in the runs of the scan loop on its own.
MaxLivePlugins == 2

\* The state when LapisLazuli(**config) has returned for the OAuth
\* configuration and main() calls scan_submissions(): some of the plugin
\* classes are active.
InitScan ==
    /\ pc = "scan_forward"
    /\ config = OAuthConfig
    /\ exc = "none"
    /\ excOrigin = "none"
    /\ startupDone = TRUE
    /\ restarts = 0
    /\ use_oauth = VerifyOptions(OAuthConfig).use_oauth
    /\ use_mako = VerifyOptions(OAuthConfig).use_mako
    /\ \E ok \in SUBSET (1..Len(PluginClasses)) :
          /\ Cardinality(ok) <= MaxLivePlugins
          /\ plugins = LoadedPlugins(ok)
          /\ ctorOk = ok
    /\ verifyRaised = FALSE
    /\ handlers = Reattach(<<>>, OAuthConfig, 1)
    /\ arrived = 0
    /\ commented = {}
    /\ inbox = NoMessages
    /\ items = <<>>
    /\ done = <<>>
    /\ cycles = 0
    /\ listing = <<>>
    /\ li = 1
    /\ k = 1
    /\ import_results = <<>>
    /\ ii = 1
    /\ export_results = <<>>
    /\ export_table = <<>>
    /\ links_display = <<>>
    /\ ridx = 1
    /\ publishAttempts = [p \in Posts |-> 0]
    /\ calls = <<>>
    /\ exportCalls = {}
    /\ exportHits = {}
    /\ deleteCalls = <<>>
    /\ importFalsy = TRUE
    /\ importEnded = FALSE
    /\ addCommentCalled = FALSE
    /\ pubFailed = FALSE
    /\ rollbackRuns = 0
    /\ deleteRaised = FALSE
    /\ stickyResult = "none"
    /\ ownComment = FALSE
    /\ psRaised = FALSE

\* The steps of one invocation of scan_submissions.
NextScan ==
    \/ Scan_Forward
    \/ Scan_Fetch
    \/ Scan_NextPost
    \/ Scan_Except
    \/ Scan_Append
    \/ Scan_Sleep
    \/ Scan_Refresh
    \/ PS_Comments
    \/ PS_ImportCall
    \/ PS_ImportDone
    \/ PS_ExportCall
    \/ PS_ExportDone
    \/ PS_TableGate
    \/ PS_Compose
    \/ PS_Publish
    \/ PS_Sticky
    \/ PS_RollbackStep
    \/ PS_RollbackDone

\* One invocation of scan_submissions in which a step that can be taken is
\* taken: every call the loop makes returns or raises, and sleeps end.
SpecLive == InitScan /\ [][NextScan]_vars /\ WF_vars(NextScan)

\* The positions inside process_submission.
ProcessPcs == {"ps_comments", "ps_import", "ps_export", "ps_compose", "ps_publish",
               "ps_sticky", "ps_rollback"}

\* C24: scan_submissions is left only by an exception that reaches main();
\* a cycle that no exception leaves reaches its sleep, and after the sleep
\* the head of the loop is reached again.
C24_ScanNeverReturns ==
    /\ [][(pc \in ScanPcs \cup ProcessPcs /\ pc' \notin ScanPcs \cup ProcessPcs) =>
             /\ pc' = "main_except"
             /\ exc' # "none"]_vars
    /\ (pc = "scan_fetch") ~> (pc \in {"scan_sleep", "main_except"})
    /\ (pc = "scan_sleep") ~> (pc \in {"scan_forward", "main_except"})

\* C24 witness: the head of the loop is reached again after a complete
\* cycle in which two posts were handled.
C24_Witness ==
    /\ pc = "scan_forward"
    /\ cycles = 1
    /\ Len(done) = 2
    /\ exc = "none"

\* The call of that bundled exporter in the fan-out under way, if made.
CallOf(name) == {j \in 1..Len(calls) : calls[j].plugin = name}

\* C25: ImgurPlugin returns None for a video and when it is not logged in;
\* VidmePlugin and RawVideoPlugin return None for what is not a video; no
\* import record gets a result both from ImgurPlugin and from a video
\* exporter.
C25_ExportersSkipOtherMedia ==
    LET info == import_results[1]
        Got(name) == \E j \in CallOf(name) : ~calls[j].raised /\ ~calls[j].value.isNone
    IN  /\ \A j \in CallOf("ImgurPlugin") :
              (info.video \/ ~plugins[1].client) =>
                 ~calls[j].raised /\ calls[j].value.isNone
        /\ \A j \in CallOf("VidmePlugin") \cup CallOf("RawVideoPlugin") :
              ~info.video => ~calls[j].raised /\ calls[j].value.isNone
        /\ ~(Got("ImgurPlugin") /\ (Got("VidmePlugin") \/ Got("RawVideoPlugin")))

\* C25 witness: a video with urls went through the three exporters with
\* imgur logged in; imgur returned None, the two video exporters a result.
C25_Witness ==
    /\ pc = "ex_done"
    /\ import_results[1].video
    /\ plugins[1].client
    /\ calls[1].value.isNone
    /\ Len(export_results) = 2

\* C25 second witness case: images; imgur returned a result, the video
\* exporters None.
C25_WitnessImages ==
    /\ pc = "ex_done"
    /\ ~import_results[1].video
    /\ Len(export_results) = 1
    /\ export_results[1].exporter = "ImgurPlugin"
    /\ calls[2].value.isNone /\ calls[3].value.isNone

\* C26 (as claimed): after every construction the 'lapis' logger holds the
\* handlers of the latest construction only: one console handler, and one
\* file handler when a logfile is configured.
C26_HandlersOfLatestConstruction ==
    (config.present /\ pc \notin {"main", "init_verify"}) =>
       handlers = <<Handler("console", restarts + 1)>>
                     \o (IF "logfile" \in config.keys
                           THEN <<Handler("file", restarts + 1)>> ELSE <<>>)

\* C27 (as claimed): when the export table yields no link text at all (no
\* header, no footer, no link_display), process_submission returns at the
\* 'Exports done, but no links' gate: add_comment is reached only with a
\* non-empty links text.
C27_NoLinksNoReply ==
    pc \in {"ps_publish", "ps_sticky", "ps_rollback"} => links_display # <<>>

\* C28 (as claimed): ImgurPlugin.export_submission returns None or a record
\* with both exporter and link_display, also when an upload failed and the
\* uploaded images were deleted.
C28_ImgurNoneOrLinked ==
    \A j \in CallOf("ImgurPlugin") :
       ~calls[j].raised =>
          \/ calls[j].value.isNone
          \/ {"exporter", "link_display"} \subseteq calls[j].value.keys

\* The names of the plugins that define func, in the order of self.plugins.
Defining(func) ==
    LET ps == SelectSeq(plugins, LAMBDA p : HasAttr(p, func))
    IN  [j \in 1..Len(ps) |-> ps[j].name]

\* C29: the fan-out is exhaustive. When call_plugin_function has gone through
\* self.plugins, the calls it made are exactly one per plugin that defines the
\* function, in order, whether or not an earlier call returned a record or
\* raised; and when the export loop is over, export_submission has been called
\* with every truthy import record on every plugin that defines it, so the
\* calls number (truthy import records) x (plugins defining export_submission).
C29_FanOutExhaustive ==
    /\ (pc = "ps_import" /\ k > Len(plugins))
          => [j \in 1..Len(calls) |-> calls[j].plugin] = Defining("import_submission")
    /\ (pc = "ps_export" /\ ii <= Len(FilterNone(import_results)) /\ k > Len(plugins))
          => [j \in 1..Len(calls) |-> calls[j].plugin] = Defining("export_submission")
    /\ (pc = "ps_export" /\ ii > Len(FilterNone(import_results)))
          => /\ exportCalls =
                  {[import_info |-> import_results[i], plugin |-> Defining("export_submission")[j]] :
                     i \in 1..Len(import_results),
                     j \in 1..Len(Defining("export_submission"))}
             /\ \A i \in 1..Len(import_results) : Truthy(import_results[i])
             /\ Cardinality(exportCalls)
                  = Len(import_results) * Len(Defining("export_submission"))

\* C29 witness: the export loop is over for two import records and two
\* exporters; the first call already returned a record, and four calls were made.
C29_Witness ==
    /\ pc = "ps_export"
    /\ ii > Len(FilterNone(import_results))
    /\ Len(import_results) = 2
    /\ Len(Defining("export_submission")) = 2
    /\ Cardinality(exportCalls) = 4
    /\ Cardinality(exportHits) = 2

\* C30 (as claimed): delete_export is called for a post only if add_comment
\* did not succeed for it; once the reply is published, nothing that happens
\* afterwards leads to a delete_export call.
C30_DeleteOnlyIfUnpublished ==
    deleteCalls # <<>> => pubFailed

\* C34 (as claimed): the list of seen posts behaves as a set: no post
\* identifier is stored in it twice, so it is never longer than the number of
\* distinct identifiers in it.
C34_SeenSetNoDuplicates ==
    Len(done) <= Cardinality({done[j] : j \in 1..Len(done)})

\* ------------------------------------------------------------ forward_reply
\* How a call to reddit made by forward_reply ends: it returns, it raises a
\* praw.errors.PRAWException, or it raises another exception (requests'
\* ConnectionError, for one).
RedditEnds == {"ok", "PRAWException", "Exception"}

\* reddit.get_unread(): the unread messages, newest first.
RECURSIVE Unread(_, _)
Unread(box, m) ==
    IF m = 0 THEN <<>>
    ELSE (IF box[m].exists /\ box[m].unread THEN <<m>> ELSE <<>>) \o Unread(box, m - 1)

\* item.mark_as_read()
MarkAsRead(box, m) == [box EXCEPT ![m].unread = FALSE]

\* reddit.send_message(maintainer, subject, response)
SendMessage(box, m) == [box EXCEPT ![m].forwards = @ + 1]

\* forward_reply(item): mark_as_read, then the text is formatted (item.author
\* is None for a deleted account, and .name raises AttributeError), then
\* send_message; AttributeError and PRAWException are swallowed, any other
\* exception leaves forward_reply. The inbox afterwards and the exception
\* that escapes, if any.
ForwardReply(box, m, mark, send) ==
    IF mark # "ok"
      THEN [inbox |-> box, raised |-> IF mark = "Exception" THEN mark ELSE "none"]
    ELSE IF ~box[m].author
      THEN [inbox |-> MarkAsRead(box, m), raised |-> "none"]
    ELSE IF send # "ok"
      THEN [inbox |-> MarkAsRead(box, m),
            raised |-> IF send = "Exception" THEN send ELSE "none"]
    ELSE [inbox |-> SendMessage(MarkAsRead(box, m), m), raised |-> "none"]

\* scan_submissions is entered with forward_replies set and an empty inbox.
InitForward ==
    /\ pc = "scan_forward"
    /\ config = OAuthConfig
    /\ exc = "none"
    /\ excOrigin = "none"
    /\ startupDone = TRUE
    /\ restarts = 0
    /\ use_oauth = VerifyOptions(OAuthConfig).use_oauth
    /\ use_mako = VerifyOptions(OAuthConfig).use_mako
    /\ plugins = <<>>
    /\ ctorOk = {}
    /\ verifyRaised = FALSE
    /\ handlers = Reattach(<<>>, OAuthConfig, 1)
    /\ arrived = 0
    /\ commented = {}
    /\ inbox = NoMessages
    /\ items = <<>>
    /\ done = <<>>
    /\ cycles = 0
    /\ listing = <<>>
    /\ li = 1
    /\ k = 1
    /\ import_results = <<>>
    /\ ii = 1
    /\ export_results = <<>>
    /\ export_table = <<>>
    /\ links_display = <<>>
    /\ ridx = 1
    /\ publishAttempts = [p \in Posts |-> 0]
    /\ calls = <<>>
    /\ exportCalls = {}
    /\ exportHits = {}
    /\ deleteCalls = <<>>
    /\ importFalsy = TRUE
    /\ importEnded = FALSE
    /\ addCommentCalled = FALSE
    /\ pubFailed = FALSE
    /\ rollbackRuns = 0
    /\ deleteRaised = FALSE
    /\ stickyResult = "none"
    /\ ownComment = FALSE
    /\ psRaised = FALSE

\* `for item in self.reddit.get_unread()`: messages may have been sent to the
\* bot since the last cycle; the unread ones are fetched. get_unread() is
\* outside any try block.
FR_GetUnread ==
    /\ pc = "scan_forward"
    /\ config.forward_replies
    /\ items = <<>>
    /\ cycles < MaxCycles
    /\ cycles' = cycles + 1
    /\ \E new \in SUBSET {m \in Messages : ~inbox[m].exists} :
       \E authors \in SUBSET new :
          /\ inbox' = [m \in Messages |->
                         IF m \in new THEN Message(TRUE, TRUE, m \in authors, 0)
                         ELSE inbox[m]]
          /\ \/ /\ items' = Unread(inbox', MaxMessages)
                /\ NoRaise("scan_forward")
             \/ /\ items' = <<>>
                /\ EscapeScan("Exception", "get_unread")
    /\ UNCHANGED <<mainVars, arrived, commented, done, listing, li, psVars,
                   publishAttempts, postHist>>

\* self.forward_reply(item) for the next item of the loop. When the loop is
\* over the rest of the cycle runs, which leaves the inbox alone.
FR_ForwardReply ==
    /\ pc = "scan_forward"
    /\ items # <<>>
    /\ \E mark \in RedditEnds, send \in RedditEnds :
          LET end == ForwardReply(inbox, Head(items), mark, send) IN
            /\ inbox' = end.inbox
            /\ IF end.raised = "none"
                 THEN /\ NoRaise("scan_forward")
                      /\ items' = Tail(items)
                 ELSE /\ EscapeScan(end.raised, "forward_reply")
                      /\ items' = <<>>
    /\ UNCHANGED <<mainVars, arrived, commented, scanVars, psVars,
                   publishAttempts, postHist>>

NextForward ==
    \/ FR_GetUnread
    \/ FR_ForwardReply

SpecForward == InitForward /\ [][NextForward]_vars

\* C33 (as claimed): a message is marked as read only if it was forwarded:
\* once forward_reply has returned for an item, the item was sent to the
\* maintainer or it is still unread; no message is read and never forwarded.
C33_ReadOnlyIfForwarded ==
    \A m \in Messages :
       (inbox[m].exists /\ ~inbox[m].unread) => inbox[m].forwards > 0

\* C32 (as claimed): every export record returned by a bundled plugin that
\* implements delete_export carries both exporter and delete_info, so that
\* the cleanup after a failed publish reaches delete_export for it.
C32_BundledRecordsDeletable ==
    \A j \in 1..Len(calls) :
       \A p \in 1..Len(plugins) :
          ( /\ plugins[p].name = calls[j].plugin
            /\ HasAttr(plugins[p], "delete_export")
            /\ ~calls[j].raised
            /\ Truthy(calls[j].value) )
          => {"exporter", "delete_info"} \subseteq calls[j].value.keys

\* C31 (as claimed): no export is leaked. When process_submission has ended
\* for a post, by return or by exception, every export record of its table
\* that carries delete_info and an exporter with delete_export is referenced
\* by a published reply or has had a delete_export call made for it.
C31_NoExportLeaked ==
    pc \in {"scan_except", "scan_append"} =>
       \A r \in 1..Len(FlatResults(export_table)) :
          ( /\ Deletable(FlatResults(export_table)[r])
            /\ Matched(FlatResults(export_table)[r], plugins) # <<>> )
          => \/ addCommentCalled /\ ~pubFailed
             \/ \E d \in 1..Len(deleteCalls) : deleteCalls[d].ridx = r

====
